---- MODULE Spec2Model ----
(***************************************************************************)
(* Model of internal/nist/wrapper/wrapper.cpp: the C wrapper around the    *)
(* NIST SP 800-90B entropy assessment library.                             *)
(*                                                                         *)
(* One assessment call (calculate_iid_entropy or                           *)
(* calculate_non_iid_entropy) is a state machine over the call's request,  *)
(* the result structure, the prepared sample dp and the locals of the      *)
(* pipeline.  The statistical estimators are external: each invocation     *)
(* returns a value of EstimateVals or throws.  Entropy values are doubles  *)
(* in the code; the model samples them at whole bits.                      *)
(***************************************************************************)
EXTENDS Integers, Sequences, FiniteSets, TLC

(***************************************************************************)
(* Bounds of the model.                                                    *)
(***************************************************************************)
\* longest sample handed to prepare_data under SpecPrep
MaxLen == 3
\* estimator invocations per call that may return something else than 1 bit
MaxOffNominal == 2
\* non-zero words an out-of-bounds read of the symbol table may find
MaxStray == 2

(***************************************************************************)
(* Program constants.                                                      *)
(***************************************************************************)
MAX_ESTIMATORS == 16
\* the "not applicable" estimate, -1.0
NotApplicable == -1
\* entries of symbol_map_down_table
TableSize == 256
\* width of uint8_t values
ByteRange == 256

VARIABLES
    pc,             \* position of the call
    mode,           \* "iid" or "non_iid": which entry point was called
    data,           \* request: the bytes (<<>> with length 0)
    data_null,      \* request: data == NULL
    bits_per_symbol,\* request
    is_binary,      \* request
    result,         \* the EntropyResult
    dp,             \* the data_t of the call
    heap,           \* buffers of dp currently allocated
    releases,       \* number of free_data(&dp) calls made by the guard
    H_original,     \* local of the pipeline
    H_bitstring,    \* local of the pipeline
    blk,            \* Non-IID: index of the estimator block being run
    est_entropy,    \* Non-IID: the block's *_entropy local
    lrs_entropy,    \* Non-IID: lrs_entropy of the t-Tuple/LRS block
    invoked,        \* history: <<estimator, channel>> pairs invoked so far
    off             \* history: invocations that returned an off-nominal value

vars == <<pc, mode, data, data_null, bits_per_symbol, is_binary, result, dp,
          heap, releases, H_original, H_bitstring, blk, est_entropy,
          lrs_entropy, invoked, off>>

(***************************************************************************)
(* Bit operations on non-negative integers.                                *)
(***************************************************************************)
RECURSIVE BitAnd(_, _)
BitAnd(x, y) ==
    IF x = 0 \/ y = 0 THEN 0
    ELSE (x % 2) * (y % 2) + 2 * BitAnd(x \div 2, y \div 2)

RECURSIVE BitOr(_, _)
BitOr(x, y) ==
    IF x = 0 THEN y
    ELSE IF y = 0 THEN x
    ELSE (IF x % 2 = 1 \/ y % 2 = 1 THEN 1 ELSE 0)
         + 2 * BitOr(x \div 2, y \div 2)

ShiftRight(x, n) == x \div (2 ^ n)

Min(a, b) == IF b < a THEN b ELSE a

(***************************************************************************)
(* prepare_data: word size auto-detection (lines 119-133).                 *)
(***************************************************************************)
\* for (i = 0; i < len; i++) datamask |= symbols[i];
RECURSIVE DataMaskFrom(_, _, _)
DataMaskFrom(bytes, i, datamask) ==
    IF i > Len(bytes) THEN datamask
    ELSE DataMaskFrom(bytes, i + 1, BitOr(datamask, bytes[i]) % ByteRange)

DataMask(bytes) == DataMaskFrom(bytes, 1, 0)

\* for (i = 8; i > 0 && (datamask & curbit) == 0; i--)
\*     { curbit >>= 1; detected_size = i - 1; }
RECURSIVE DetectLoop(_, _, _, _)
DetectLoop(i, curbit, detected_size, datamask) ==
    IF i > 0 /\ BitAnd(datamask, curbit) = 0
    THEN DetectLoop(i - 1, ShiftRight(curbit, 1) % ByteRange, i - 1, datamask)
    ELSE detected_size

DetectedWordSize(bytes) ==
    LET detected_size == DetectLoop(8, 128, 8, DataMask(bytes))
    IN  IF detected_size = -1 THEN 1 ELSE detected_size + 1

WordSizeFor(bytes, bits) ==
    IF bits = 0 THEN DetectedWordSize(bytes) ELSE bits

(***************************************************************************)
(* prepare_data: masking and the alphabet (lines 135-161).                 *)
(***************************************************************************)
MaxSymbols(word_size) == 2 ^ word_size

MaskFor(word_size) == MaxSymbols(word_size) - 1

\* dp->symbols[i] &= mask, stored in a uint8_t
MaskedSymbols(bytes, word_size) ==
    [i \in 1..Len(bytes) |-> BitAnd(bytes[i], MaskFor(word_size)) % ByteRange]

RECURSIVE MaxSymbolFrom(_, _, _)
MaxSymbolFrom(syms, i, maxsymbol) ==
    IF i > Len(syms) THEN maxsymbol
    ELSE MaxSymbolFrom(syms, i + 1,
                       IF syms[i] > maxsymbol THEN syms[i] ELSE maxsymbol)

MaxSymbol(syms) == MaxSymbolFrom(syms, 1, 0)

\* symbol_map_down_table[v] after the marking loop: 1 where v occurs
Marked(syms, v) ==
    IF \E i \in 1..Len(syms) : syms[i] = v THEN 1 ELSE 0

\* for (i = 0; i < max_symbols; i++)
\*     if (table[i] != 0) table[i] = alph_size++;
\* over the entries the table has: iteration v finds alph_size equal to the
\* number of marked entries below v
MappedEntry(syms, limit, v) ==
    IF v < limit /\ Marked(syms, v) # 0
    THEN Cardinality({u \in 0..(v - 1) : Marked(syms, u) # 0})
    ELSE Marked(syms, v)

\* alph_size after the in-bounds iterations of the mapping loop
MappedCount(syms, limit) ==
    Cardinality({u \in 0..(limit - 1) : Marked(syms, u) # 0})

TableLimit(word_size) == Min(MaxSymbols(word_size), TableSize)

\* number of table reads the mapping loop makes past the end of the table
OutOfBoundsReads(word_size) ==
    IF MaxSymbols(word_size) > TableSize
    THEN MaxSymbols(word_size) - TableSize ELSE 0

(***************************************************************************)
(* prepare_data: bit expansion and compaction (lines 163-192).             *)
(***************************************************************************)
\* bsymbols[i * word_size + j] = (raw >> (word_size - 1 - j)) & 0x1,
\* raw = rawsymbols[i] & mask; indices are 0-based in the code
ExpandBits(bytes, word_size) ==
    [n \in 1..(Len(bytes) * word_size) |->
        LET i == (n - 1) \div word_size
            j == (n - 1) % word_size
            raw == BitAnd(bytes[i + 1], MaskFor(word_size)) % ByteRange
        IN  BitAnd(ShiftRight(raw, word_size - 1 - j), 1)]

\* if (alph_size < maxsymbol + 1) symbols[i] = (uint8_t)table[symbols[i]]
CompactSymbols(syms, limit, alph_size, maxsymbol) ==
    IF alph_size < maxsymbol + 1
    THEN [i \in 1..Len(syms) |-> MappedEntry(syms, limit, syms[i]) % ByteRange]
    ELSE syms

\* The data_t prepare_data leaves when it returns true.  stray is the number
\* of non-zero words the mapping loop found past the end of the table.
PreparedData(bytes, bits, stray) ==
    LET word_size == WordSizeFor(bytes, bits)
        masked    == MaskedSymbols(bytes, word_size)
        maxsymbol == MaxSymbol(masked)
        limit     == TableLimit(word_size)
        alph_size == MappedCount(masked, limit) + stray
        symbols   == CompactSymbols(masked, limit, alph_size, maxsymbol)
    IN  [word_size  |-> word_size,
         len        |-> Len(bytes),
         symbols    |-> symbols,
         rawsymbols |-> bytes,
         \* word_size == 1: bsymbols is the symbols buffer itself, so it
         \* holds whatever the compaction left there
         bsymbols   |-> IF word_size = 1 THEN symbols
                        ELSE ExpandBits(bytes, word_size),
         alph_size  |-> alph_size,
         maxsymbol  |-> maxsymbol,
         blen       |-> Len(bytes) * word_size]

\* dp as prepare_data leaves it when an allocation fails (lines 95-113)
UnpreparedData(bytes, bits) ==
    [word_size  |-> bits,
     len        |-> Len(bytes),
     symbols    |-> <<>>,
     rawsymbols |-> <<>>,
     bsymbols   |-> <<>>,
     alph_size  |-> 0,
     maxsymbol  |-> 0,
     blen       |-> 0]

Buffers(word_size) ==
    IF word_size = 1 THEN {"symbols", "rawsymbols"}
    ELSE {"symbols", "rawsymbols", "bsymbols"}

\* the buffers the first two malloc calls obtained (lines 105-106)
FirstAllocations(symbols_ok, rawsymbols_ok) ==
    (IF symbols_ok THEN {"symbols"} ELSE {})
        \cup (IF rawsymbols_ok THEN {"rawsymbols"} ELSE {})

\* if (dp->symbols) free(dp->symbols); if (dp->rawsymbols) free(...)
AfterSymbolsFailure(allocated) ==
    (allocated \ {"symbols"}) \ {"rawsymbols"}

\* free(dp->symbols); free(dp->rawsymbols); when malloc(blen) failed
AfterBitstringFailure(allocated) ==
    (allocated \ {"symbols"}) \ {"rawsymbols"}

(***************************************************************************)
(* DataGuard (lines 27-44) and free_data.                                  *)
(***************************************************************************)
\* free_data(dp) of shared/utils.h: frees symbols, rawsymbols, and bsymbols
\* where it is a buffer of its own
free_data(allocated) ==
    allocated \ {"symbols", "rawsymbols", "bsymbols"}

\* released_: set by release(), which no caller invokes
GuardReleased == FALSE

\* the guard's destructor as it would be after a release()
GuardDestructorDisarmed == UNCHANGED <<heap, releases>>

\* ~DataGuard(): if (!released_ && dp_) free_data(dp_);
GuardDestructor ==
    IF ~GuardReleased
    THEN /\ heap' = free_data(heap)
         /\ releases' = releases + 1
    ELSE UNCHANGED <<heap, releases>>

(***************************************************************************)
(* The result structure and its helpers (lines 49-91).                     *)
(***************************************************************************)
create_result ==
    [min_entropy     |-> 0,
     h_original      |-> 0,
     h_bitstring     |-> 0,
     h_assessed      |-> 0,
     data_word_size  |-> 0,
     error_code      |-> 0,
     error_message   |-> "",
     estimators      |-> <<>>,
     estimator_count |-> 0]

\* add_estimator as it would be if it kept only valid estimates
add_estimator_valid_only(res, name, entropy, passed) ==
    IF res.estimator_count >= MAX_ESTIMATORS \/ entropy < 0 THEN res
    ELSE [res EXCEPT
            !.estimators = Append(@, [name             |-> name,
                                      entropy_estimate |-> entropy,
                                      passed           |-> passed,
                                      is_entropy_valid |-> TRUE]),
            !.estimator_count = @ + 1]

add_estimator(res, name, entropy, passed) ==
    IF res.estimator_count >= MAX_ESTIMATORS THEN res
    ELSE [res EXCEPT
            !.estimators = Append(@, [name             |-> name,
                                      entropy_estimate |-> entropy,
                                      passed           |-> passed,
                                      is_entropy_valid |-> (entropy >= 0)]),
            !.estimator_count = @ + 1]

add_test_result(res, name, passed) ==
    IF res.estimator_count >= MAX_ESTIMATORS THEN res
    ELSE [res EXCEPT
            !.estimators = Append(@, [name             |-> name,
                                      entropy_estimate |-> -1,
                                      passed           |-> passed,
                                      is_entropy_valid |-> FALSE]),
            !.estimator_count = @ + 1]

set_error(res, code, message) ==
    [res EXCEPT !.error_code = code, !.error_message = message]

(***************************************************************************)
(* The estimators, external to the wrapper: what an invocation may return. *)
(***************************************************************************)
EstimateVals == {NotApplicable, 0, 1, 2}

IsNominal(v) == v = 1

\* the values an invocation may return once n invocations were off-nominal
Returns(n) == IF n < MaxOffNominal THEN EstimateVals
              ELSE {v \in EstimateVals : IsNominal(v)}

OffCount(v) == IF IsNominal(v) THEN 0 ELSE 1

(***************************************************************************)
(* The requests.                                                           *)
(***************************************************************************)
Modes == {"iid", "non_iid"}

\* samples of whole assessment calls
CallSamples ==
    {<<>>, <<0, 0>>, <<1, 1>>, <<128, 128>>, <<0, 1>>, <<1, 2>>,
     <<0, 1, 2>>, <<0, 2, 3>>}

CallBits == {-1, 0, 1, 2, 8, 9}

\* samples handed to prepare_data alone
PrepBytes == {0, 1, 2, 3, 5, 64, 128, 255}

RECURSIVE SeqsUpTo(_, _)
SeqsUpTo(S, n) ==
    IF n = 0 THEN {<<>>}
    ELSE LET shorter == SeqsUpTo(S, n - 1)
         IN  shorter \cup {Append(s, x) : s \in {t \in shorter : Len(t) = n - 1},
                                          x \in S}

PrepSamples == SeqsUpTo(PrepBytes, MaxLen) \ {<<>>}

NoLocals ==
    /\ H_original = 0
    /\ H_bitstring = 0
    /\ blk = 0
    /\ est_entropy = NotApplicable
    /\ lrs_entropy = NotApplicable
    /\ invoked = {}
    /\ off = 0

\* a call of calculate_iid_entropy or calculate_non_iid_entropy is entered
Init ==
    /\ pc = "create"
    /\ mode \in Modes
    /\ \/ data_null = TRUE /\ data = <<>>
       \/ data_null = FALSE /\ data \in CallSamples
    /\ bits_per_symbol \in CallBits
    /\ is_binary \in BOOLEAN
    /\ result = create_result
    /\ dp = UnpreparedData(<<>>, 0)
    /\ heap = {}
    /\ releases = 0
    /\ NoLocals

\* prepare_data is entered, by a call that passed validation
InitPrep ==
    /\ pc = "prepare"
    /\ mode \in Modes
    /\ data_null = FALSE
    /\ data \in PrepSamples
    /\ bits_per_symbol \in 0..8
    /\ is_binary = FALSE
    /\ result = create_result
    /\ dp = UnpreparedData(<<>>, 0)
    /\ heap = {}
    /\ releases = 0
    /\ NoLocals

(***************************************************************************)
(* The call up to the pipeline (lines 204-232 and 294-322).                *)
(***************************************************************************)
request == <<mode, data, data_null, bits_per_symbol, is_binary>>

locals == <<H_original, H_bitstring, blk, est_entropy, lrs_entropy,
            invoked, off>>

\* EntropyResult* result = create_result(); if (!result) return NULL;
CreateResult ==
    /\ pc = "create"
    /\ \E allocated \in BOOLEAN :
          IF allocated
          THEN /\ result' = create_result
               /\ pc' = "validate"
          ELSE /\ result' = result
               /\ pc' = "returned_null"
    /\ UNCHANGED <<request, dp, heap, releases, locals>>

Validate ==
    /\ pc = "validate"
    /\ IF data_null \/ Len(data) = 0
       THEN /\ result' = set_error(result, -1,
                                   "Invalid input: data is NULL or empty")
            /\ pc' = "returned"
       ELSE IF bits_per_symbol < 0 \/ bits_per_symbol > 8
       THEN /\ result' = set_error(result, -1,
                                   "Invalid bits_per_symbol: must be 0-8")
            /\ pc' = "returned"
       ELSE /\ result' = result
            /\ pc' = "prepare"
    /\ UNCHANGED <<request, dp, heap, releases, locals>>

\* prepare_data, whole.  Each malloc may fail.  When the word size exceeds 8
\* the mapping loop reads and writes past the end of symbol_map_down_table:
\* it either finds some number of non-zero words there (each counted into
\* alph_size) or the process dies.
PrepareData ==
    /\ pc = "prepare"
    /\ \E symbols_ok, rawsymbols_ok, bsymbols_ok \in BOOLEAN :
          IF ~symbols_ok \/ ~rawsymbols_ok
          THEN /\ result' = set_error(result, -1,
                                "Failed to allocate memory for symbols")
               /\ dp' = UnpreparedData(data, bits_per_symbol)
               /\ heap' = AfterSymbolsFailure(
                              FirstAllocations(symbols_ok, rawsymbols_ok))
               /\ pc' = "returned"
          ELSE LET word_size == WordSizeFor(data, bits_per_symbol)
                   reads     == OutOfBoundsReads(word_size)
               IN  \/ /\ reads > 0
                      /\ UNCHANGED <<result, dp>>
                      /\ heap' = FirstAllocations(TRUE, TRUE)
                      /\ pc' = "crashed"
                   \/ \E stray \in 0..Min(MaxStray, reads) :
                         IF word_size # 1 /\ ~bsymbols_ok
                         THEN /\ result' = set_error(result, -1,
                                    "Failed to allocate memory for bitstring")
                              /\ dp' = [UnpreparedData(data, bits_per_symbol)
                                          EXCEPT !.word_size = word_size]
                              /\ heap' = AfterBitstringFailure(
                                             FirstAllocations(TRUE, TRUE))
                              /\ pc' = "returned"
                         ELSE /\ result' = result
                              /\ dp' = PreparedData(data, bits_per_symbol,
                                                    stray)
                              /\ heap' = Buffers(word_size)
                              /\ pc' = "check_alph"
    /\ UNCHANGED <<request, releases, locals>>

\* DataGuard guard(&dp); if (dp.alph_size <= 1) { set_error; return result; }
\* then the pipeline's locals are initialised
CheckAlphabet ==
    /\ pc = "check_alph"
    /\ IF dp.alph_size <= 1
       THEN /\ result' = set_error(result, -1,
                "Symbol alphabet consists of 1 symbol. No entropy awarded.")
            /\ GuardDestructor
            /\ pc' = "returned"
            /\ UNCHANGED <<H_original, H_bitstring, blk>>
       ELSE /\ H_original' = dp.word_size
            /\ H_bitstring' = 1
            /\ blk' = IF mode = "iid" THEN 0 ELSE 1
            /\ pc' = IF mode = "iid" THEN "iid_mcv" ELSE "bitstring"
            /\ UNCHANGED <<result, heap, releases>>
    /\ UNCHANGED <<request, dp, est_entropy, lrs_entropy, invoked, off>>

\* an estimator throws: the catch clause sets the error, the guard frees dp
Caught ==
    /\ result' = set_error(result, -2, "estimator failed")
    /\ GuardDestructor
    /\ pc' = "returned"

(***************************************************************************)
(* The IID pipeline (lines 234-274).                                       *)
(***************************************************************************)
\* H_original = most_common(symbols, ...); add_estimator(...)
IidMostCommon ==
    /\ pc = "iid_mcv"
    /\ \E v \in Returns(off) :
          /\ H_original' = v
          /\ result' = add_estimator(result, "Most Common Value", v, TRUE)
          /\ off' = off + OffCount(v)
    /\ invoked' = invoked \cup {<<"most_common", "Literal">>}
    /\ pc' = "iid_mcv_bit"
    /\ UNCHANGED <<request, dp, heap, releases, H_bitstring, blk,
                   est_entropy, lrs_entropy>>

\* if (alph_size > 2) H_bitstring = most_common(bsymbols, ...)
IidMostCommonBitstring ==
    /\ pc = "iid_mcv_bit"
    /\ IF dp.alph_size > 2
       THEN /\ \E v \in Returns(off) :
                  /\ H_bitstring' = v
                  /\ off' = off + OffCount(v)
            /\ invoked' = invoked \cup {<<"most_common", "Bitstring">>}
       ELSE UNCHANGED <<H_bitstring, off, invoked>>
    /\ pc' = "iid_chi"
    /\ UNCHANGED <<request, result, dp, heap, releases, H_original, blk,
                   est_entropy, lrs_entropy>>

IidChiSquare ==
    /\ pc = "iid_chi"
    /\ \E chi_square_pass \in BOOLEAN :
          result' = add_test_result(result, "Chi-Square Tests",
                                    chi_square_pass)
    /\ invoked' = invoked \cup {<<"chi_square_tests", "Literal">>}
    /\ pc' = "iid_lrs"
    /\ UNCHANGED <<request, dp, heap, releases, H_original, H_bitstring,
                   blk, est_entropy, lrs_entropy, off>>

IidLrs ==
    /\ pc = "iid_lrs"
    /\ \E lrs_pass \in BOOLEAN :
          result' = add_test_result(result,
                        "Length of Longest Repeated Substring Test", lrs_pass)
    /\ invoked' = invoked \cup {<<"len_LRS_test", "Literal">>}
    /\ pc' = "iid_perm"
    /\ UNCHANGED <<request, dp, heap, releases, H_original, H_bitstring,
                   blk, est_entropy, lrs_entropy, off>>

IidPermutation ==
    /\ pc = "iid_perm"
    /\ \E perm_pass \in BOOLEAN :
          result' = add_test_result(result, "Permutation Tests", perm_pass)
    /\ invoked' = invoked \cup {<<"permutation_tests", "Literal">>}
    /\ pc' = "iid_combine"
    /\ UNCHANGED <<request, dp, heap, releases, H_original, H_bitstring,
                   blk, est_entropy, lrs_entropy, off>>

\* h_assessed of the IID path (lines 262-266)
IidAssessed(word_size, alph_size, h_orig, h_bit) ==
    LET h0 == word_size
        h1 == IF alph_size > 2 THEN Min(h0, h_bit * word_size) ELSE h0
    IN  Min(h1, h_orig)

\* the result fields set on success (lines 269-274 and 507-512)
SetResults(res, h_orig, h_bit, h_assessed, word_size) ==
    [res EXCEPT !.h_original = h_orig,
                !.h_bitstring = h_bit,
                !.h_assessed = h_assessed,
                !.min_entropy = h_assessed,
                !.data_word_size = word_size,
                !.error_code = 0]

IidCombine ==
    /\ pc = "iid_combine"
    /\ result' = SetResults(result, H_original, H_bitstring,
                            IidAssessed(dp.word_size, dp.alph_size,
                                        H_original, H_bitstring),
                            dp.word_size)
    /\ GuardDestructor
    /\ pc' = "returned"
    /\ UNCHANGED <<request, dp, locals>>

\* an estimator or test of the IID pipeline throws
IidThrow ==
    /\ \/ pc \in {"iid_mcv", "iid_chi", "iid_lrs", "iid_perm"}
       \/ pc = "iid_mcv_bit" /\ dp.alph_size > 2
    /\ Caught
    /\ UNCHANGED <<request, dp, locals>>

(***************************************************************************)
(* The Non-IID pipeline (lines 324-512): nine blocks, one per estimator    *)
(* call; SAalgs yields both the t-Tuple and the LRS estimate.              *)
(***************************************************************************)
Blocks ==
    <<[fn |-> "most_common",      name |-> "Most Common Value"],
      [fn |-> "collision_test",   name |-> "Collision Test"],
      [fn |-> "markov_test",      name |-> "Markov Test"],
      [fn |-> "compression_test", name |-> "Compression Test"],
      [fn |-> "SAalgs",           name |-> "t-Tuple Test"],
      [fn |-> "multi_mcw_test",   name |-> "Multi Most Common in Window Test"],
      [fn |-> "lag_test",         name |-> "Lag Prediction Test"],
      [fn |-> "multi_mmc_test",
       name |-> "Multi Markov Model with Counting Test"],
      [fn |-> "LZ78Y_test",       name |-> "LZ78Y Test"]>>

SABlock == 5

\* bool initial_entropy = is_binary;
initial_entropy == is_binary

\* the bitstring-channel condition as it would be without !initial_entropy
BitstringConditionAlphabetOnly(b) == dp.alph_size > 2

\* if ((dp.alph_size > 2) || !initial_entropy): the same in every block
BitstringCondition(b) == dp.alph_size > 2 \/ ~initial_entropy

\* the literal-channel condition as it would be without the alph_size test
LiteralConditionAnyAlphabet(b) == initial_entropy

\* the condition of the block's literal-channel call: collision, Markov and
\* compression ask for alph_size == 2 (lines 353, 367, 383), the others for
\* initial_entropy alone (lines 339, 410, 433, 451, 469, 487)
LiteralCondition(b) ==
    IF b \in {2, 3, 4} THEN initial_entropy /\ dp.alph_size = 2
    ELSE initial_entropy

\* whether the block tests the return value with >= 0 before using it:
\* most common value, collision and Markov do not (lines 335-370)
ChecksSentinel(b) == b \notin {1, 2, 3}

\* the flag the block hands to add_estimator as passed
PassedFlag(b, entropy) == IF b \in {1, 2, 3} THEN TRUE ELSE entropy >= 0

\* the running minimum after a return value ret
Lowered(b, ret, h) ==
    IF ChecksSentinel(b) /\ ~(ret >= 0) THEN h ELSE Min(ret, h)

\* the block's *_entropy local after a return value ret
Recorded(b, ret, entropy) ==
    IF ChecksSentinel(b) /\ ~(ret >= 0) THEN entropy ELSE ret

\* the block's entropy local is set to -1.0, then the bitstring-channel call
NonIidBitstring ==
    /\ pc = "bitstring"
    /\ IF BitstringCondition(blk)
       THEN /\ \E ret \in Returns(off) :
               \E ret2 \in IF blk = SABlock THEN Returns(off + OffCount(ret))
                           ELSE {NotApplicable} :
                  /\ H_bitstring' =
                        IF blk = SABlock
                        THEN Lowered(blk, ret2,
                                     Lowered(blk, ret, H_bitstring))
                        ELSE Lowered(blk, ret, H_bitstring)
                  /\ est_entropy' = Recorded(blk, ret, NotApplicable)
                  /\ lrs_entropy' = Recorded(blk, ret2, NotApplicable)
                  /\ off' = off + OffCount(ret)
                            + (IF blk = SABlock THEN OffCount(ret2) ELSE 0)
            /\ invoked' = invoked \cup {<<Blocks[blk].fn, "Bitstring">>}
       ELSE /\ est_entropy' = NotApplicable
            /\ lrs_entropy' = NotApplicable
            /\ UNCHANGED <<H_bitstring, off, invoked>>
    /\ pc' = "literal"
    /\ UNCHANGED <<request, result, dp, heap, releases, H_original, blk>>

\* the records the block appends (lines 344, 358, ..., 421-422, ..., 494)
Record(res, b, entropy, lrs) ==
    LET first == add_estimator(res, Blocks[b].name, entropy,
                               PassedFlag(b, entropy))
    IN  IF b = SABlock
        THEN add_estimator(first, "LRS Test", lrs, lrs >= 0)
        ELSE first

\* the literal-channel call of the block, then its add_estimator call(s)
NonIidLiteral ==
    /\ pc = "literal"
    /\ IF LiteralCondition(blk)
       THEN /\ \E ret \in Returns(off) :
               \E ret2 \in IF blk = SABlock THEN Returns(off + OffCount(ret))
                           ELSE {NotApplicable} :
                  /\ H_original' =
                        IF blk = SABlock
                        THEN Lowered(blk, ret2,
                                     Lowered(blk, ret, H_original))
                        ELSE Lowered(blk, ret, H_original)
                  /\ est_entropy' = Recorded(blk, ret, est_entropy)
                  /\ lrs_entropy' = Recorded(blk, ret2, lrs_entropy)
                  /\ off' = off + OffCount(ret)
                            + (IF blk = SABlock THEN OffCount(ret2) ELSE 0)
            /\ invoked' = invoked \cup {<<Blocks[blk].fn, "Literal">>}
       ELSE UNCHANGED <<H_original, est_entropy, lrs_entropy, off, invoked>>
    /\ result' = Record(result, blk, est_entropy', lrs_entropy')
    /\ IF blk < Len(Blocks)
       THEN /\ blk' = blk + 1
            /\ pc' = "bitstring"
       ELSE /\ blk' = blk
            /\ pc' = "combine"
    /\ UNCHANGED <<request, dp, heap, releases, H_bitstring>>

\* h_assessed of the Non-IID path as it would be without the literal channel
NonIidAssessedNoLiteral(word_size, alph_size, initial, h_orig, h_bit) ==
    LET h0 == word_size
    IN  IF alph_size > 2 \/ ~initial
        THEN Min(h0, h_bit * word_size) ELSE h0

\* h_assessed of the Non-IID path (lines 498-504)
NonIidAssessed(word_size, alph_size, initial, h_orig, h_bit) ==
    LET h0 == word_size
        h1 == IF alph_size > 2 \/ ~initial
              THEN Min(h0, h_bit * word_size) ELSE h0
    IN  IF initial THEN Min(h1, h_orig) ELSE h1

NonIidCombine ==
    /\ pc = "combine"
    /\ result' = SetResults(result, H_original, H_bitstring,
                            NonIidAssessed(dp.word_size, dp.alph_size,
                                           initial_entropy, H_original,
                                           H_bitstring),
                            dp.word_size)
    /\ GuardDestructor
    /\ pc' = "returned"
    /\ UNCHANGED <<request, dp, locals>>

\* an estimator of the Non-IID pipeline throws
NonIidThrow ==
    /\ \/ pc = "bitstring" /\ BitstringCondition(blk)
       \/ pc = "literal" /\ LiteralCondition(blk)
    /\ invoked' = invoked \cup
          {<<Blocks[blk].fn, IF pc = "bitstring" THEN "Bitstring"
                             ELSE "Literal">>}
    /\ Caught
    /\ UNCHANGED <<request, dp, H_original, H_bitstring, blk, est_entropy,
                   lrs_entropy, off>>

(***************************************************************************)
(* The specifications.                                                     *)
(***************************************************************************)
Next ==
    \/ CreateResult
    \/ Validate
    \/ PrepareData
    \/ CheckAlphabet
    \/ IidMostCommon
    \/ IidMostCommonBitstring
    \/ IidChiSquare
    \/ IidLrs
    \/ IidPermutation
    \/ IidCombine
    \/ IidThrow
    \/ NonIidBitstring
    \/ NonIidLiteral
    \/ NonIidCombine
    \/ NonIidThrow

\* whole assessment calls
Spec == Init /\ [][Next]_vars

\* prepare_data alone, on every sample of PrepSamples
SpecPrep == InitPrep /\ [][PrepareData]_vars

(***************************************************************************)
(* Vocabulary of the properties.                                           *)
(***************************************************************************)
\* prepare_data returned true in this call
PrepareSucceeded == dp.blen > 0

\* the call returned a result with error_code == 0
Succeeded == pc = "returned" /\ result.error_code = 0

\* the call returned a result with error_code != 0
Failed == pc = "returned" /\ result.error_code # 0

\* bit k of x
BitOf(x, k) == (x \div (2 ^ k)) % 2

\* the input byte at position i (1-based), masked to width bits
MaskedValue(i, width) == data[i] % (2 ^ width)

DistinctMasked(width) == {MaskedValue(i, width) : i \in 1..Len(data)}

AllZero == \A i \in 1..Len(data) : data[i] = 0

AllIdentical == \A i, j \in 1..Len(data) : data[i] = data[j]

\* index of the highest set bit of the largest byte of a sample not all zero
HighestSetBit ==
    CHOOSE k \in 0..7 :
        /\ \E i \in 1..Len(data) : data[i] >= 2 ^ k
        /\ \A i \in 1..Len(data) : data[i] < 2 ^ (k + 1)

(***************************************************************************)
(* C1: with requested word size 0, the word size prepare_data settles on   *)
(* is (index of the highest set bit of the OR of all bytes) + 1, and 1     *)
(* when every byte is zero.                                                *)
(***************************************************************************)
C1_AutoDetectedWordSize ==
    (PrepareSucceeded /\ bits_per_symbol = 0) =>
        dp.word_size = IF AllZero THEN 1 ELSE HighestSetBit + 1

(***************************************************************************)
(* C2, as stated: in Non-IID mode none of collision, Markov, compression,  *)
(* multi-MCW, lag, multi-MMC and LZ78Y is invoked on the literal channel   *)
(* unless initial_entropy is true and alph_size == 2.  Stated for the word *)
(* sizes 1..8, where alph_size is the size of the alphabet.                *)
(***************************************************************************)
BinaryOnlyEstimators == {"collision_test", "markov_test", "compression_test"}

PredictionEstimators ==
    {"multi_mcw_test", "lag_test", "multi_mmc_test", "LZ78Y_test"}

C2_SevenLiteralOnlyWhenBinary ==
    (mode = "non_iid" /\ dp.word_size <= 8) =>
        \A f \in BinaryOnlyEstimators \cup PredictionEstimators :
            <<f, "Literal">> \in invoked =>
                (initial_entropy /\ dp.alph_size = 2)

(***************************************************************************)
(* C2, amended: collision, Markov and compression are invoked on the       *)
(* literal channel only when initial_entropy is true and alph_size == 2;   *)
(* multi-MCW, lag, multi-MMC and LZ78Y only when initial_entropy is true,  *)
(* and a successful call with initial_entropy true has invoked all four    *)
(* of them there, whatever alph_size is.                                   *)
(***************************************************************************)
C2_LiteralChannelPolicy ==
    mode = "non_iid" =>
        /\ \A f \in BinaryOnlyEstimators :
              <<f, "Literal">> \in invoked =>
                  (initial_entropy /\ dp.alph_size = 2)
        /\ \A f \in PredictionEstimators :
              <<f, "Literal">> \in invoked => initial_entropy
        /\ (Succeeded /\ initial_entropy) =>
              \A f \in PredictionEstimators : <<f, "Literal">> \in invoked

\* a successful call on a larger alphabet ran the four predictors, and none
\* of collision, Markov, compression, on the literal channel
C2_Witness ==
    /\ mode = "non_iid"
    /\ dp.word_size <= 8
    /\ Succeeded
    /\ initial_entropy
    /\ dp.alph_size > 2
    /\ \A f \in PredictionEstimators : <<f, "Literal">> \in invoked
    /\ \A f \in BinaryOnlyEstimators : <<f, "Literal">> \notin invoked

(***************************************************************************)
(* C3: in Non-IID mode a sentinel return never enters H_bitstring or       *)
(* H_original, so both stay non-negative, and a record whose estimate is   *)
(* the sentinel has is_entropy_valid = false.                              *)
(***************************************************************************)
C3_SentinelExcluded ==
    mode = "non_iid" =>
        /\ H_bitstring >= 0
        /\ H_original >= 0
        /\ \A i \in 1..Len(result.estimators) :
              result.estimators[i].entropy_estimate < 0 =>
                  ~result.estimators[i].is_entropy_valid

(***************************************************************************)
(* C4: the word size of a prepared sample, and the data_word_size a        *)
(* successful call reports, lie in 1..8.                                   *)
(***************************************************************************)
C4_WordSizeInRange ==
    /\ PrepareSucceeded => dp.word_size \in 1..8
    /\ Succeeded => result.data_word_size \in 1..8

(***************************************************************************)
(* C5: after prepare_data succeeds with a word size in 1..8, bsymbols has  *)
(* len * word_size entries and entry i*word_size + j is bit                *)
(* (word_size-1-j) of the masked, not compacted, value of byte i.          *)
(***************************************************************************)
C5_BitStreamFromRawValues ==
    (PrepareSucceeded /\ dp.word_size \in 1..8) =>
        /\ Len(dp.bsymbols) = dp.len * dp.word_size
        /\ dp.blen = dp.len * dp.word_size
        /\ \A i \in 0..(dp.len - 1) : \A j \in 0..(dp.word_size - 1) :
              dp.bsymbols[i * dp.word_size + j + 1] =
                  BitOf(MaskedValue(i + 1, dp.word_size),
                        dp.word_size - 1 - j)

(***************************************************************************)
(* C6: after prepare_data succeeds, alph_size is the number of distinct    *)
(* masked byte values, every symbol lies in [0, alph_size), and masked     *)
(* value -> symbol is a strictly increasing bijection onto [0, alph_size). *)
(***************************************************************************)
C6_CompactedAlphabet ==
    PrepareSucceeded =>
        /\ dp.alph_size = Cardinality(DistinctMasked(dp.word_size))
        /\ \A i \in 1..dp.len : dp.symbols[i] \in 0..(dp.alph_size - 1)
        /\ {dp.symbols[i] : i \in 1..dp.len} = 0..(dp.alph_size - 1)
        /\ \A i, j \in 1..dp.len :
              (MaskedValue(i, dp.word_size) < MaskedValue(j, dp.word_size))
                  <=> (dp.symbols[i] < dp.symbols[j])

(***************************************************************************)
(* C7: a successful assessment has h_assessed <= word_size, h_assessed <=  *)
(* H_bitstring * word_size when the bitstring channel was in scope,        *)
(* h_assessed <= H_original when the literal channel was in scope, and     *)
(* min_entropy == h_assessed.                                              *)
(***************************************************************************)
BitstringInScope ==
    IF mode = "iid" THEN dp.alph_size > 2
    ELSE dp.alph_size > 2 \/ ~initial_entropy

LiteralInScope == IF mode = "iid" THEN TRUE ELSE initial_entropy

C7_AssessedWithinChannels ==
    Succeeded =>
        /\ result.h_assessed <= dp.word_size
        /\ result.data_word_size = dp.word_size
        /\ BitstringInScope =>
              result.h_assessed <= result.h_bitstring * dp.word_size
        /\ LiteralInScope => result.h_assessed <= result.h_original
        /\ result.min_entropy = result.h_assessed

\* a successful Non-IID call with both channels in scope in which the
\* literal channel sets the assessed entropy
C7_Witness ==
    /\ Succeeded
    /\ dp.word_size <= 8
    /\ mode = "non_iid"
    /\ BitstringInScope
    /\ LiteralInScope
    /\ result.h_assessed = result.h_original
    /\ result.h_original < result.h_bitstring * dp.word_size
    /\ result.h_original < dp.word_size

(***************************************************************************)
(* C8: a result with error_code != 0 has min_entropy, h_original,          *)
(* h_bitstring and h_assessed at 0.0 and data_word_size at 0, and no call  *)
(* ends with the process aborting.                                         *)
(***************************************************************************)
C8_ErrorLeavesDefaults ==
    /\ Failed =>
          /\ result.min_entropy = 0
          /\ result.h_original = 0
          /\ result.h_bitstring = 0
          /\ result.h_assessed = 0
          /\ result.data_word_size = 0
    /\ pc # "crashed"

(***************************************************************************)
(* C9: for a non-empty sample of identical bytes and a requested word size *)
(* in 0..8 no estimator is ever invoked, and the call returns a non-zero   *)
(* error code with estimator_count == 0.                                   *)
(***************************************************************************)
C9_IdenticalBytesDegenerate ==
    (~data_null /\ Len(data) > 0 /\ AllIdentical
        /\ bits_per_symbol \in 0..8) =>
        /\ invoked = {}
        /\ result.estimator_count = 0
        /\ pc = "returned" => result.error_code # 0

(***************************************************************************)
(* C10: a successful Non-IID assessment holds exactly ten records, one per *)
(* estimator, in the canonical order.                                      *)
(***************************************************************************)
CanonicalOrder ==
    <<"Most Common Value", "Collision Test", "Markov Test",
      "Compression Test", "t-Tuple Test", "LRS Test",
      "Multi Most Common in Window Test", "Lag Prediction Test",
      "Multi Markov Model with Counting Test", "LZ78Y Test">>

C10_TenRecordsInOrder ==
    (mode = "non_iid" /\ Succeeded) =>
        /\ result.estimator_count = 10
        /\ Len(result.estimators) = 10
        /\ \A i \in 1..10 : result.estimators[i].name = CanonicalOrder[i]

\* a successful Non-IID call with a skipped literal channel and a record
\* holding the sentinel
C10_Witness ==
    /\ mode = "non_iid"
    /\ dp.word_size <= 8
    /\ Succeeded
    /\ initial_entropy
    /\ dp.alph_size > 2
    /\ result.estimator_count = 10
    /\ \E i \in 1..10 :
          result.estimators[i].entropy_estimate = NotApplicable

(***************************************************************************)
(* C11: in Non-IID mode an estimator is invoked on the bitstring channel   *)
(* only when alph_size > 2 or initial_entropy is false, and a successful   *)
(* call in that case has invoked every estimator there; a successful call  *)
(* with word_size == 1 and initial_entropy true has invoked no estimator   *)
(* on the bitstring channel and every estimator on the literal channel.    *)
(***************************************************************************)
\* the nine estimator functions behind the ten estimators (SAalgs yields
\* the t-Tuple and the LRS estimate)
NonIidEstimators ==
    {"most_common", "SAalgs"} \cup BinaryOnlyEstimators
        \cup PredictionEstimators

C11_BitstringChannelPolicy ==
    mode = "non_iid" =>
        /\ \A f \in NonIidEstimators :
              <<f, "Bitstring">> \in invoked =>
                  (dp.alph_size > 2 \/ ~is_binary)
        /\ (Succeeded /\ (dp.alph_size > 2 \/ ~is_binary)) =>
              \A f \in NonIidEstimators : <<f, "Bitstring">> \in invoked
        /\ (Succeeded /\ dp.word_size = 1 /\ is_binary) =>
              /\ \A f \in NonIidEstimators :
                    <<f, "Bitstring">> \notin invoked
              /\ \A f \in NonIidEstimators : <<f, "Literal">> \in invoked

\* a successful call on a one-bit, initial-entropy sample: every estimator
\* ran on the literal channel and none on the bitstring channel
C11_Witness ==
    /\ mode = "non_iid"
    /\ Succeeded
    /\ dp.word_size = 1
    /\ is_binary
    /\ dp.alph_size = 2
    /\ invoked = {<<f, "Literal">> : f \in NonIidEstimators}

(***************************************************************************)
(* C12: in a call in which prepare_data succeeded the sample's buffers     *)
(* stay allocated until the guard releases them, are released exactly once *)
(* before the call returns, on the degenerate-alphabet return, on normal   *)
(* completion and on an exception, and no estimator is invoked after the   *)
(* release; when prepare_data failed its buffers are freed and the sample  *)
(* is never released.                                                      *)
(***************************************************************************)
C12_Released ==
    /\ releases <= 1
    /\ (PrepareSucceeded /\ pc # "returned") =>
          (releases = 0 /\ heap = Buffers(dp.word_size))
    /\ (PrepareSucceeded /\ pc = "returned") =>
          (releases = 1 /\ heap = {})
    /\ (~PrepareSucceeded /\ pc = "returned") =>
          (releases = 0 /\ heap = {})

C12_ReleasedOnceOnEveryExit ==
    /\ []C12_Released
    /\ [][releases > 0 => invoked' = invoked]_vars

\* an estimator threw after prepare_data had succeeded, and the call
\* returned with the sample released
C12_Witness ==
    /\ pc = "returned"
    /\ PrepareSucceeded
    /\ result.error_code = -2
    /\ invoked # {}
    /\ releases = 1
    /\ heap = {}

====
